---- MODULE Spec2Model ----
(***************************************************************************)
(* Model of the request admission layer (backend/rate_limiter.py), of the  *)
(* resource transactions (backend/utils/transaction_utils.py) and of the   *)
(* /upload and /query endpoints with the orchestrator workflows behind     *)
(* them (backend/main.py, backend/orchestrator.py).                        *)
(*                                                                         *)
(* SpecLimiter: the limiter with small bounds, threads and the wait queue. *)
(* SpecService: the same limiter as the service runs it, without a task   *)
(* for process_queue.                                                      *)
(* SpecDeployed: the limiter with the constants of main.py, called from    *)
(* the event loop. SpecBlock: scoped blocks on the transaction manager.    *)
(* SpecApi: the two endpoints. SpecTxn: blocks, endpoints, ageing and the  *)
(* sweep of old transactions together.                                     *)
(*                                                                         *)
(* Time and water are fixed-point numbers: one clock tick is               *)
(* 1/(Scale*leak_rate) seconds and `water' counts 1/Scale-ths of a         *)
(* request, so one tick leaks one unit and one admit adds Scale units.     *)
(***************************************************************************)
EXTENDS Integers, Sequences, FiniteSets, TLC

\* ------------------------------------------------------------------------
\* Bounds of the model
\* ------------------------------------------------------------------------
capacity == 2
Scale == 2
max_queue_size == 2
MaxFutures == 3
MaxElapsed == 3
NumThreads == 2
MaxReq == 2
MaxPaths == 2
MaxRes == 2
MaxCalls == 3
MaxSleep == 1
MaxPace == 3

\* EnhancedRateLimiter(capacity=30, leak_rate_per_sec=5, max_queue_size=20)
DeployedCapacity == 30
DeployedLeakRate == 5
DeployedQueueSize == 20

CapW == capacity * Scale
Threads == 1..NumThreads
Futures == 1..MaxFutures
NoThread == 0
Reqs == 1..MaxReq
Paths == 1..MaxPaths

VARIABLES
    water,      \* EnhancedRateLimiter.water, in 1/Scale units
    elapsed,    \* time.time() - self.last_check, in ticks
    lock,       \* holder of EnhancedRateLimiter.lock, NoThread when free
    queue,      \* EnhancedRateLimiter.queue: sequence of futures
    fstate,     \* state of each asyncio future created by a queued call
    wpc,        \* position of each queued call inside asyncio.wait_for
    nfut,       \* number of futures created so far
    tpc,        \* position of each thread calling allow_request
    burst,      \* history: calls and admissions since the clock last advanced
    admitted,   \* history: futures resolved by the drain loop, in order
    last,       \* history: outcome of the latest allow_request_with_queue
    drain       \* a task runs process_queue

limiterVars == <<water, elapsed, lock, queue, fstate, wpc, nfut, tpc, burst,
                 admitted, last, drain>>

VARIABLES
    active,     \* TransactionManager.active_transactions: request ids, in insertion order
    txn,        \* the Transaction created for each request id
    files,      \* paths that exist on disk
    rpc,        \* position of each request's workflow
    status,     \* HTTP status the /upload endpoint answered with
    outcome,    \* how the scoped block of each request ended for its caller
    built,      \* history: the workflow constructed its success response
    calls,      \* history: resource cleanups invoked for each transaction, in order
    lastStart   \* history: result of start_transaction when the latest step called it

txnVars == <<active, txn, files, rpc, status, outcome, built, calls, lastStart>>

VARIABLES
    phase,      \* history: where the deployed limiter stands in the fill-and-wait scenario
    pace        \* history: the current run of calls arriving at most at the leak rate

deployVars == <<phase, pace>>

VARIABLES
    contexts,   \* Orchestrator._request_contexts: ids that have a request context
    kind,       \* endpoint each request came in by
    metrics,    \* history: final metrics records emitted for each request
    events,     \* history: what each request went through and called so far
    cause,      \* history: the first exception raised inside each request's workflow
    detail      \* the ErrorResponse in the HTTPException a workflow handler raised

apiVars == <<contexts, kind, metrics, events, cause, detail>>

vars == <<limiterVars, txnVars, deployVars, apiVars>>
outsideLimiter == <<txnVars, deployVars, apiVars>>
outsideTxn == <<limiterVars, deployVars, apiVars>>

Max(a, b) == IF a >= b THEN a ELSE b
Range(s) == {s[i] : i \in 1..Len(s)}

\* ------------------------------------------------------------------------
\* EnhancedRateLimiter: pure parts
\* ------------------------------------------------------------------------

NoLeak(w, e) == w
\* water after the leak of the elapsed time, floored at zero
LeakedWater(w, e) == Max(0, w - e)

AdmissibleLoose(w) == w <= CapW
\* the capacity test of allow_request and process_queue
Admissible(w) == w < CapW

QueueFullLoose(q) == Len(q) > max_queue_size
\* the bound test of allow_request_with_queue
QueueFull(q) == Len(q) >= max_queue_size

\* deque(maxlen=max_queue_size).append: a full deque drops its left end
DequeAppend(q, f) ==
    IF max_queue_size = 0 THEN q
    ELSE IF Len(q) >= max_queue_size THEN Append(Tail(q), f)
    ELSE Append(q, f)

PopRight(q) == [item |-> q[Len(q)], rest |-> SubSeq(q, 1, Len(q) - 1)]
\* deque.popleft
PopLeft(q) == [item |-> Head(q), rest |-> Tail(q)]

KeepFuture(q, f) == q
\* "if future in self.queue: self.queue.remove(future)"
RemoveFuture(q, f) == SelectSeq(q, LAMBDA x : x # f)

SetResultAlways(fs, f) == [fs EXCEPT ![f] = "result"]
\* "if not future.done(): future.set_result(True)"
SetResultIfNotDone(fs, f) ==
    IF fs[f] = "pending" THEN [fs EXCEPT ![f] = "result"] ELSE fs

LockIgnored == TRUE
\* threading.Lock can be acquired
LockFree == lock = NoThread

\* ------------------------------------------------------------------------
\* History of one instant (no clock advance)
\* ------------------------------------------------------------------------
NoBurst == [base |-> -1, adm |-> 0, rej |-> FALSE, who |-> {}]
BurstLeak(b, w) ==
    IF b.base = -1 THEN [base |-> w, adm |-> 0, rej |-> FALSE, who |-> {}] ELSE b
BurstCaller(b, t) == [b EXCEPT !.who = @ \cup {t}]
BurstAdmit(b) == IF b.base = -1 THEN b ELSE [b EXCEPT !.adm = @ + 1]
BurstReject(b) == IF b.base = -1 THEN b ELSE [b EXCEPT !.rej = TRUE]

\* ------------------------------------------------------------------------
\* Initial state: EnhancedRateLimiter.__init__
\* ------------------------------------------------------------------------
InitLimiter ==
    /\ water = 0
    /\ elapsed = 0
    /\ lock = NoThread
    /\ queue = <<>>
    /\ fstate = [f \in Futures |-> "none"]
    /\ wpc = [f \in Futures |-> "none"]
    /\ nfut = 0
    /\ tpc = [t \in Threads |-> "idle"]
    /\ burst = NoBurst
    /\ admitted = <<>>
    /\ last = [res |-> "none", flip |-> 0]
    /\ drain = FALSE

\* ------------------------------------------------------------------------
\* Actions of the limiter
\* ------------------------------------------------------------------------

\* the wall clock advances by one tick
Tick ==
    /\ elapsed < MaxElapsed
    /\ elapsed' = elapsed + 1
    /\ burst' = NoBurst
    /\ UNCHANGED <<water, lock, queue, fstate, wpc, nfut, tpc, admitted, last>>
    /\ UNCHANGED drain
    /\ UNCHANGED outsideLimiter

\* allow_request called from a thread: lock, leak, capacity test; a rejected
\* call returns at once, an accepted one still has to increment
ThreadEnter(t) ==
    /\ tpc[t] = "idle"
    /\ LockFree
    /\ LET w == LeakedWater(water, elapsed) IN
        /\ water' = w
        /\ elapsed' = 0
        /\ IF Admissible(w)
           THEN /\ lock' = t
                /\ tpc' = [tpc EXCEPT ![t] = "inc"]
                /\ burst' = BurstCaller(BurstLeak(burst, w), t)
           ELSE /\ lock' = lock
                /\ tpc' = tpc
                /\ burst' = BurstCaller(BurstReject(BurstLeak(burst, w)), t)
    /\ UNCHANGED <<queue, fstate, wpc, nfut, admitted, last>>
    /\ UNCHANGED drain
    /\ UNCHANGED outsideLimiter

\* allow_request in a thread: "self.water += 1; return True", lock released
ThreadInc(t) ==
    /\ tpc[t] = "inc"
    /\ water' = water + Scale
    /\ lock' = NoThread
    /\ tpc' = [tpc EXCEPT ![t] = "idle"]
    /\ burst' = BurstAdmit(burst)
    /\ UNCHANGED <<elapsed, queue, fstate, wpc, nfut, admitted, last>>
    /\ UNCHANGED drain
    /\ UNCHANGED outsideLimiter

\* allow_request_with_queue up to its first suspension, on the event loop
allow_request_with_queue ==
    /\ LockFree
    /\ LET w == LeakedWater(water, elapsed)
           f == nfut + 1
           flip == 1 - last.flip
       IN
        /\ elapsed' = 0
        /\ IF Admissible(w)
           THEN /\ water' = w + Scale
                /\ burst' = BurstAdmit(BurstLeak(burst, w))
                /\ last' = [res |-> "true", flip |-> flip]
                /\ UNCHANGED <<queue, fstate, wpc, nfut>>
           ELSE /\ water' = w
                /\ burst' = BurstReject(BurstLeak(burst, w))
                /\ IF QueueFull(queue)
                   THEN /\ last' = [res |-> "false", flip |-> flip]
                        /\ UNCHANGED <<queue, fstate, wpc, nfut>>
                   ELSE /\ nfut < MaxFutures
                        /\ queue' = DequeAppend(queue, f)
                        /\ fstate' = [fstate EXCEPT ![f] = "pending"]
                        /\ wpc' = [wpc EXCEPT ![f] = "waiting"]
                        /\ nfut' = f
                        /\ last' = [res |-> "queued", flip |-> flip]
    /\ UNCHANGED <<lock, tpc, admitted>>
    /\ UNCHANGED drain
    /\ UNCHANGED outsideLimiter

\* the timeout of wait_for fires while the call is suspended
TimeoutFire(f) ==
    /\ wpc[f] = "waiting"
    /\ fstate[f] = "pending"
    /\ wpc' = [wpc EXCEPT ![f] = "timeout"]
    /\ UNCHANGED <<water, elapsed, lock, queue, fstate, nfut, tpc, burst, admitted, last>>
    /\ UNCHANGED drain
    /\ UNCHANGED outsideLimiter

\* the suspended call resumes with the future resolved: "return True"
WakeAdmitted(f) ==
    /\ wpc[f] \in {"waiting", "timeout"}
    /\ fstate[f] = "result"
    /\ wpc' = [wpc EXCEPT ![f] = "ret_true"]
    /\ UNCHANGED <<water, elapsed, lock, queue, fstate, nfut, tpc, burst, admitted, last>>
    /\ UNCHANGED drain
    /\ UNCHANGED outsideLimiter

\* the call resumes after the timeout with the future unresolved:
\* wait_for cancels the future and suspends until the cancellation is seen
WakeTimeout(f) ==
    /\ wpc[f] = "timeout"
    /\ fstate[f] = "pending"
    /\ fstate' = [fstate EXCEPT ![f] = "cancelled"]
    /\ wpc' = [wpc EXCEPT ![f] = "cancelling"]
    /\ UNCHANGED <<water, elapsed, lock, queue, nfut, tpc, burst, admitted, last>>
    /\ UNCHANGED drain
    /\ UNCHANGED outsideLimiter

\* wait_for raises TimeoutError: the except block of allow_request_with_queue
WakeCancelled(f) ==
    /\ wpc[f] = "cancelling"
    /\ queue' = RemoveFuture(queue, f)
    /\ wpc' = [wpc EXCEPT ![f] = "ret_false"]
    /\ UNCHANGED <<water, elapsed, lock, fstate, nfut, tpc, burst, admitted, last>>
    /\ UNCHANGED drain
    /\ UNCHANGED outsideLimiter

\* a task is created for process_queue, as its docstring asks: the loop
\* starts with its first sleep
StartDrain ==
    /\ ~drain
    /\ drain' = TRUE
    /\ UNCHANGED <<water, elapsed, lock, queue, fstate, wpc, nfut, tpc, burst, admitted, last>>
    /\ UNCHANGED outsideLimiter

\* one round of process_queue after its sleep, with a non-empty queue
process_queue ==
    /\ drain
    /\ queue # <<>>
    /\ LockFree
    /\ LET w == LeakedWater(water, elapsed)
           p == PopLeft(queue)
           fs == SetResultIfNotDone(fstate, p.item)
       IN
        /\ elapsed' = 0
        /\ IF Admissible(w)
           THEN /\ water' = w + Scale
                /\ queue' = p.rest
                /\ fstate' = fs
                /\ admitted' = IF fs[p.item] # fstate[p.item]
                               THEN Append(admitted, p.item) ELSE admitted
                /\ burst' = BurstAdmit(BurstLeak(burst, w))
           ELSE /\ water' = w
                /\ burst' = BurstLeak(burst, w)
                /\ UNCHANGED <<queue, fstate, admitted>>
    /\ UNCHANGED <<lock, wpc, nfut, tpc, last>>
    /\ UNCHANGED drain
    /\ UNCHANGED outsideLimiter
NextLimiter ==
    \/ Tick
    \/ \E t \in Threads : ThreadEnter(t)
    \/ \E t \in Threads : ThreadInc(t)
    \/ allow_request_with_queue
    \/ \E f \in Futures : TimeoutFire(f)
    \/ \E f \in Futures : WakeAdmitted(f)
    \/ \E f \in Futures : WakeTimeout(f)
    \/ \E f \in Futures : WakeCancelled(f)
    \/ StartDrain
    \/ process_queue

\* ------------------------------------------------------------------------
\* Resources and transactions: pure parts
\* ------------------------------------------------------------------------

\* Transaction.__init__; `old' stands for "now - started_at > max_age"
NewTransaction ==
    [resources |-> <<>>, completed |-> FALSE, failed |-> FALSE, old |-> FALSE]

\* FileResource.__init__
FileResource(p, temp) == [path |-> p, is_temp |-> temp]

AppendCapped(log, x) == IF Len(log) < MaxCalls THEN Append(log, x) ELSE log

\* FileResource.cleanup: an existing path is deleted, whatever is_temp says;
\* a deletion that fails (p \in bad) raises CleanupError
FileCleanup(res, fs, bad) ==
    [files |-> IF res.path \in fs /\ res.path \notin bad THEN fs \ {res.path} ELSE fs,
     raised |-> res.path \in fs /\ res.path \in bad]

\* a loop that gives up at the first cleanup that raises
RECURSIVE CleanupFromAbort(_, _, _, _)
CleanupFromAbort(res, i, acc, bad) ==
    IF i = 0 \/ acc.errors # <<>> THEN acc
    ELSE LET c == [files |-> IF res[i].path \in acc.files /\ res[i].path \notin bad
                             THEN acc.files \ {res[i].path} ELSE acc.files,
                   raised |-> res[i].path \in acc.files /\ res[i].path \in bad]
         IN CleanupFromAbort(res, i - 1,
                             [files |-> c.files,
                              log |-> IF Len(acc.log) < MaxCalls THEN Append(acc.log, i)
                                      ELSE acc.log,
                              errors |-> IF c.raised THEN Append(acc.errors, i)
                                         ELSE acc.errors],
                             bad)
\* the loop of Transaction.cleanup over reversed(self.resources), from index i down
RECURSIVE CleanupFrom(_, _, _, _)
CleanupFrom(res, i, acc, bad) ==
    IF i = 0 THEN acc
    ELSE LET c == FileCleanup(res[i], acc.files, bad) IN
         CleanupFrom(res, i - 1,
                     [files |-> c.files,
                      log |-> AppendCapped(acc.log, i),
                      errors |-> IF c.raised THEN Append(acc.errors, i)
                                 ELSE acc.errors],
                     bad)

\* Transaction.cleanup of the transaction of request r in state S; a
\* non-empty `errors' is the aggregate CleanupError it raises
TransactionCleanup(S, r, bad) ==
    LET run == CleanupFrom(S.txn[r].resources, Len(S.txn[r].resources),
                           [files |-> S.files, log |-> S.calls[r], errors |-> <<>>],
                           bad)
    IN [S |-> [S EXCEPT !.files = run.files, !.calls[r] = run.log],
        errors |-> run.errors]

RollbackLeaks(S, r, bad) ==
    LET c == TransactionCleanup([S EXCEPT !.txn[r].failed = TRUE], r, bad) IN
    [S |-> c.S, raised |-> c.errors # <<>>]
\* Transaction.rollback: mark failed, clean up, log and drop any cleanup
\* error; raised: an exception leaves rollback
Rollback(S, r, bad) ==
    LET c == TransactionCleanup([S EXCEPT !.txn[r].failed = TRUE], r, bad) IN
    [S |-> c.S, raised |-> FALSE]

\* Transaction.__exit__; raised: a CleanupError leaves the with statement,
\* in the place of the exception of the block if there was one
TransactionExit(S, r, exc, bad) ==
    IF exc THEN Rollback(S, r, bad)
    ELSE LET c == TransactionCleanup(S, r, bad) IN
         IF c.errors # <<>> THEN [S |-> c.S, raised |-> TRUE]
         ELSE [S |-> [c.S EXCEPT !.txn[r].completed = TRUE], raised |-> FALSE]

StartTransactionMerge(S, r) ==
    IF r \in Range(S.active) THEN [S |-> S, raised |-> FALSE]
    ELSE [S |-> [S EXCEPT !.active = Append(@, r),
                          !.txn[r] = [resources |-> <<>>, completed |-> FALSE,
                                      failed |-> FALSE, old |-> FALSE],
                          !.calls[r] = <<>>],
          raised |-> FALSE]
\* TransactionManager.start_transaction; raised: ValueError on a known id
StartTransaction(S, r) ==
    IF r \in Range(S.active) THEN [S |-> S, raised |-> TRUE]
    ELSE [S |-> [S EXCEPT !.active = Append(@, r),
                          !.txn[r] = NewTransaction,
                          !.calls[r] = <<>>],
          raised |-> FALSE]

\* the loop of cleanup_old_transactions over old_transactions, from index k up
RECURSIVE SweepFrom(_, _, _, _)
SweepFrom(S, olds, k, bad) ==
    IF k > Len(olds) THEN S
    ELSE LET c == TransactionCleanup(S, olds[k], bad)
             S1 == IF c.errors = <<>>
                   THEN [c.S EXCEPT !.active = SelectSeq(@, LAMBDA x : x # olds[k])]
                   ELSE c.S
         IN SweepFrom(S1, olds, k + 1, bad)

\* TransactionManager.cleanup_old_transactions
CleanupOldTransactions(S, bad) ==
    SweepFrom(S, SelectSeq(S.active, LAMBDA x : S.txn[x].old), 1, bad)

\* "except ValidationError": the HTTPException raised in its place
ResponseValidationFailed ==
    [kind |-> "HTTPException", msg |-> "500: Response validation failed"]

\* "statistics=analysis_result if analysis_result is not None else ..."
StatisticsField(analysis_result) ==
    IF analysis_result # "None" THEN analysis_result ELSE "No analysis available"

\* UploadResponse validates statistics as Optional[CSVAnalysisResult]
ValidUploadResponse(statistics) == statistics \in {"None", "CSVAnalysisResult"}

\* the part of the state the transaction code works on
Cur == [files |-> files, calls |-> calls, active |-> active, txn |-> txn]

Install(S) ==
    /\ files' = S.files
    /\ calls' = S.calls
    /\ active' = S.active
    /\ txn' = S.txn

\* ------------------------------------------------------------------------
\* Initial state of the transaction manager and the workflows
\* ------------------------------------------------------------------------
InitTxn ==
    /\ active = <<>>
    /\ txn = [r \in Reqs |-> NewTransaction]
    /\ files = {}
    /\ rpc = [r \in Reqs |-> "idle"]
    /\ status = [r \in Reqs |-> "none"]
    /\ outcome = [r \in Reqs |-> "none"]
    /\ built = [r \in Reqs |-> FALSE]
    /\ calls = [r \in Reqs |-> <<>>]
    /\ lastStart = "none"

\* Request ids and file names carry no meaning: ids are drawn in the order
\* 1, 2, ... and a name is first used after all smaller ones
NewRequest(r) == rpc[r] = "idle" /\ \A q \in 1..(r - 1) : rpc[q] # "idle"

UsedPaths == UNION {{txn[r].resources[i].path : i \in DOMAIN txn[r].resources} : r \in Reqs}

NextPath(p) == \A q \in 1..(p - 1) : q \in UsedPaths

\* ------------------------------------------------------------------------
\* A scoped block: "with transaction_manager.start_transaction(id) as txn"
\* ------------------------------------------------------------------------

\* start_transaction and __enter__ of a block; an id whose transaction is
\* still registered may be presented again, by the same or another caller
BlockStart(r) ==
    /\ \/ NewRequest(r)
       \/ rpc[r] \in {"block", "done"} /\ r \in Range(active)
    /\ LET s == StartTransaction(Cur, r) IN
        /\ Install(s.S)
        /\ lastStart' = IF s.raised THEN "ValueError" ELSE "ok"
        /\ rpc' = IF s.raised THEN rpc ELSE [rpc EXCEPT ![r] = "block"]
    /\ UNCHANGED <<status, outcome, built>>
    /\ UNCHANGED outsideTxn

\* the block creates a file and registers it (is_temp defaults to True):
\* Transaction.register. A block takes its files in the order of their
\* names; another block may use the same names
BlockRegister(r, p) ==
    /\ rpc[r] = "block"
    /\ Len(txn[r].resources) < MaxRes
    /\ \A i \in DOMAIN txn[r].resources : txn[r].resources[i].path < p
    /\ NextPath(p)
    /\ txn' = [txn EXCEPT ![r].resources = Append(@, FileResource(p, TRUE))]
    /\ files' = files \cup {p}
    /\ UNCHANGED <<active, rpc, status, outcome, built, calls>>
    /\ lastStart' = "none"
    /\ UNCHANGED outsideTxn

\* the files on disk that the resources of r name: the deletions that can fail
OwnFiles(r) == {txn[r].resources[i].path : i \in DOMAIN txn[r].resources} \cap files

\* the block returns normally: __exit__(None, None, None)
BlockReturn(r) ==
    /\ rpc[r] = "block"
    /\ \E bad \in SUBSET OwnFiles(r) :
        LET x == TransactionExit(Cur, r, FALSE, bad) IN
        /\ Install(x.S)
        /\ outcome' = [outcome EXCEPT ![r] = IF x.raised THEN "CleanupError" ELSE "returned"]
    /\ rpc' = [rpc EXCEPT ![r] = "done"]
    /\ UNCHANGED <<status, built>>
    /\ lastStart' = "none"
    /\ UNCHANGED outsideTxn

\* the block raises: __exit__(exc_type, exc_val, exc_tb), the error goes on
BlockRaise(r) ==
    /\ rpc[r] = "block"
    /\ \E bad \in SUBSET OwnFiles(r) :
        LET x == TransactionExit(Cur, r, TRUE, bad) IN
        /\ Install(x.S)
        /\ outcome' = [outcome EXCEPT ![r] = IF x.raised THEN "CleanupError" ELSE "raised"]
    /\ rpc' = [rpc EXCEPT ![r] = "done"]
    /\ UNCHANGED <<status, built>>
    /\ lastStart' = "none"
    /\ UNCHANGED outsideTxn

\* time passes: the transaction of r gets older than max_age, after those
\* started before it
Age(r) ==
    /\ r \in Range(active)
    /\ ~txn[r].old
    /\ \A i, j \in DOMAIN active : (i < j /\ active[j] = r) => txn[active[i]].old
    /\ txn' = [txn EXCEPT ![r].old = TRUE]
    /\ UNCHANGED <<active, files, rpc, status, outcome, built, calls>>
    /\ lastStart' = "none"
    /\ UNCHANGED outsideTxn

\* cleanup_old_transactions, run for a request outside the model
cleanup_old_transactions ==
    /\ \E r \in Range(active) : txn[r].old
    /\ \E bad \in SUBSET files : Install(CleanupOldTransactions(Cur, bad))
    /\ UNCHANGED <<rpc, status, outcome, built>>
    /\ lastStart' = "none"
    /\ UNCHANGED outsideTxn

\* ------------------------------------------------------------------------
\* POST /upload and POST /query: upload_file, query_documents and the
\* orchestrator workflows they call, cut at their awaits. What
\* allow_request_with_queue answers is an input of the step: true or false
\* at once, or a suspension in the wait queue that ends with true or false
\* ------------------------------------------------------------------------

\* Orchestrator.create_request_context
CreateContext(C, r) == C \cup {r}

KeepContext(C, r) == C
\* "del self._request_contexts[request_id]"
DestroyContext(C, r) == C \ {r}

ConnectionIgnored(conn) == TRUE
\* "if not database_service.check_connection()" does not return early
ConnectionOk(conn) == conn

\* "hasattr(self._request_contexts[request_id], 'csv_content')": no code
\* gives a RequestContext that attribute
HasCsvContent(r) == FALSE

Note(r, what) == events' = [events EXCEPT ![r] = @ \cup what]

NoError == [kind |-> "none", msg |-> "none"]

\* an exception: its class name and str() of it
Error(k, m) == [kind |-> k, msg |-> m]

\* the outer handler of handle_file_upload: ErrorResponse(error=str(e),
\* error_type=type(e).__name__, request_id=..., timestamp=...).model_dump()
OuterHandler(r, e) ==
    [error |-> e.msg, error_type |-> e.kind, request_id |-> r, timestamp |-> "utcnow"]

\* the workflow of r raised e first, and its handlers made the exception
\* `last' of it, which the outer handler reports
Fault(r, e, lastExc) ==
    /\ cause' = [cause EXCEPT ![r] = e]
    /\ detail' = [detail EXCEPT ![r] = OuterHandler(r, lastExc)]

\* no workflow handler has built an ErrorResponse
NoDetail == [error |-> "none", error_type |-> "none", request_id |-> 0, timestamp |-> "none"]

NoFault == UNCHANGED <<cause, detail>>

\* the end of a request: its response, then cleanup_request_context in the
\* finally block: the final metrics record, the context removed, the old
\* transactions swept. C: the registry of contexts at that point
RequestEnd(r, S, C, code, how, bad) ==
    /\ Install(CleanupOldTransactions(S, bad))
    /\ status' = [status EXCEPT ![r] = code]
    /\ outcome' = [outcome EXCEPT ![r] = how]
    /\ rpc' = [rpc EXCEPT ![r] = "done"]
    /\ contexts' = IF r \in C THEN DestroyContext(C, r) ELSE C
    /\ metrics' = IF r \in C THEN [metrics EXCEPT ![r] = @ + 1] ELSE metrics

\* end of upload_file for a request whose context is in the registry
UploadEnd(r, S, code, how, bad) == RequestEnd(r, S, contexts, code, how, bad)

\* handle_file_upload up to "await upload_service.upload_file"
UploadBegin(r, C, ev) ==
    LET s == StartTransaction(Cur, r) IN
    /\ lastStart' = IF s.raised THEN "ValueError" ELSE "ok"
    /\ IF s.raised
       THEN /\ \E bad \in SUBSET files : RequestEnd(r, s.S, C, "500", "ValueError", bad)
            /\ Note(r, ev)
            /\ cause' = [cause EXCEPT ![r] = Error("ValueError", "Transaction already exists")]
            /\ UNCHANGED detail
       ELSE /\ Install(s.S)
            /\ rpc' = [rpc EXCEPT ![r] = "saving"]
            /\ contexts' = C
            /\ Note(r, ev \cup {"txn", "upload"})
            /\ NoFault
            /\ UNCHANGED <<status, outcome, metrics>>
    /\ UNCHANGED built

\* query_documents up to "await upload_service.get_uploaded_documents"
QueryBegin(r, C, ev) ==
    /\ rpc' = [rpc EXCEPT ![r] = "qlisting"]
    /\ contexts' = C
    /\ Note(r, ev \cup {"list"})
    /\ NoFault
    /\ lastStart' = "none"
    /\ UNCHANGED <<active, txn, files, calls, status, outcome, built, metrics>>

\* the limiter answered true: connection check, then the workflow.
\* conn: what check_connection returns
AfterAdmission(r, k, C, conn, ev) ==
    LET seen == ev \cup {"admit", IF conn THEN "conn_ok" ELSE "conn_fail"} IN
    IF ~ConnectionOk(conn)
    THEN /\ \E bad \in SUBSET files : RequestEnd(r, Cur, C, "503", "returned", bad)
         /\ Note(r, seen)
         /\ NoFault
         /\ lastStart' = "none"
         /\ UNCHANGED built
    ELSE IF k = "upload" THEN UploadBegin(r, C, seen)
    ELSE QueryBegin(r, C, seen)

\* the limiter answered false: 429
Rejected(r, C, ev) ==
    /\ \E bad \in SUBSET files : RequestEnd(r, Cur, C, "429", "returned", bad)
    /\ Note(r, ev \cup {"reject"})
    /\ NoFault
    /\ lastStart' = "none"
    /\ UNCHANGED built

\* a request comes in: upload_file or query_documents from its first line
\* to its first suspension or to its end
RequestArrives(r, k, adm, conn) ==
    /\ NewRequest(r)
    /\ kind' = [kind EXCEPT ![r] = k]
    /\ LET C == CreateContext(contexts, r) IN
        CASE adm = "true" -> AfterAdmission(r, k, C, conn, {})
          [] adm = "false" -> Rejected(r, C, {})
          [] adm = "queued" ->
                /\ rpc' = [rpc EXCEPT ![r] = "queued"]
                /\ contexts' = C
                /\ Note(r, {"queued"})
                /\ NoFault
                /\ lastStart' = "none"
                /\ UNCHANGED <<active, txn, files, calls, status, outcome, built, metrics>>
    /\ UNCHANGED <<limiterVars, deployVars>>

\* allow_request_with_queue returns to a request that waited in the queue
RequestResumes(r, ok, conn) ==
    /\ rpc[r] = "queued"
    /\ IF ok THEN AfterAdmission(r, kind[r], contexts, conn, {})
       ELSE Rejected(r, contexts, {})
    /\ UNCHANGED kind
    /\ UNCHANGED <<limiterVars, deployVars>>

\* upload_file wrote the file at path p: it is registered with
\* is_temp=False; next await: get_uploaded_documents
UploadSaved(r, p) ==
    /\ rpc[r] = "saving"
    /\ NextPath(p)
    /\ txn' = [txn EXCEPT ![r].resources = Append(@, FileResource(p, FALSE))]
    /\ files' = files \cup {p}
    /\ rpc' = [rpc EXCEPT ![r] = "listing"]
    /\ Note(r, {"list"})
    /\ UNCHANGED <<active, status, outcome, built, calls>>
    /\ lastStart' = "none"
    /\ UNCHANGED <<contexts, kind, metrics, cause, detail>>
    /\ UNCHANGED <<limiterVars, deployVars>>

\* a collaborator call raised, or the workflow raised itself: the outer
\* handler wraps the error in an HTTPException, __exit__ rolls back, and
\* upload_file answers 500
UploadFails(r) ==
    /\ rpc[r] \in {"saving", "listing", "processing"}
    /\ \E bad \in SUBSET files :
        UploadEnd(r, TransactionExit(Cur, r, TRUE, bad).S, "500", "HTTPException", bad)
    /\ LET e == IF rpc[r] = "processing" THEN Error("Exception", "Document processing failed")
                ELSE Error("OSError", "collaborator failed")
       IN Fault(r, e, e)
    /\ UNCHANGED <<built>>
    /\ lastStart' = "none"
    /\ UNCHANGED <<kind, events>>
    /\ UNCHANGED <<limiterVars, deployVars>>

AnyDocumentId(found) == "id"
\* the loop over the listed documents: the id of the one named like the
\* file, None when there is none or its id is empty
DocumentId(found) == IF found THEN "id" ELSE "None"

\* get_uploaded_documents returned. found: the list holds the file name
\* with an id, and process_document is awaited; otherwise the ValueError
\* goes through the handlers, __exit__ rolls back and upload_file answers 500
UploadListed(r, found) ==
    /\ rpc[r] = "listing"
    /\ IF DocumentId(found) = "None"
       THEN LET e == Error("ValueError", "Document ID not found after upload") IN
            /\ \E bad \in SUBSET files :
                 UploadEnd(r, TransactionExit(Cur, r, TRUE, bad).S, "500", "HTTPException", bad)
            /\ Fault(r, e, e)
            /\ Note(r, {"no_id"})
       ELSE /\ rpc' = [rpc EXCEPT ![r] = "processing"]
            /\ Note(r, {"process"} \cup IF found THEN {} ELSE {"no_id"})
            /\ NoFault
            /\ UNCHANGED <<active, txn, files, status, outcome, calls>>
            /\ UNCHANGED <<contexts, metrics>>
    /\ UNCHANGED <<built, kind>>
    /\ lastStart' = "none"
    /\ UNCHANGED <<limiterVars, deployVars>>

\* process_document returned True. csv: the file name ends in .csv;
\* parsed: csv_parser.parse_file returned a result instead of raising.
\* A response that validates is returned through __exit__, where a
\* CleanupError reaches upload_file; one that does not validate is an error
\* like any other
UploadProcessed(r, csv, parsed) ==
    /\ rpc[r] = "processing"
    /\ LET analysis_result == IF csv /\ parsed THEN "CSVAnalysisResult" ELSE "None"
           ok == ValidUploadResponse(StatisticsField(analysis_result))
       IN
        /\ built' = [built EXCEPT ![r] = ok]
        /\ \E bad \in SUBSET files :
            LET x == TransactionExit(Cur, r, ~ok, bad) IN
            IF ~ok THEN UploadEnd(r, x.S, "500", "HTTPException", bad)
            ELSE IF x.raised THEN UploadEnd(r, x.S, "500", "CleanupError", bad)
            ELSE UploadEnd(r, x.S, "200", "returned", bad)
        /\ IF ~ok THEN Fault(r, Error("ValidationError", "validation errors for UploadResponse"),
                              ResponseValidationFailed)
           ELSE NoFault
    /\ Note(r, (IF csv THEN {"parse"} ELSE {}) \cup (IF csv /\ ~parsed THEN {"parse_failed"} ELSE {}))
    /\ lastStart' = "none"
    /\ UNCHANGED kind
    /\ UNCHANGED <<limiterVars, deployVars>>

DocumentsAssumed(docs) == FALSE
\* "if not documents" in query_documents
NoDocuments(docs) == ~docs

Seen(docs) == IF docs THEN {} ELSE {"no_docs"}

\* get_uploaded_documents returned to query_documents. docs: the list is
\* not empty, and handle_query runs: its transaction starts, the context
\* has no csv_content, the HTTPException(400) rolls the transaction back
\* and query_documents raises it again
QueryListed(r, docs) ==
    /\ rpc[r] = "qlisting"
    /\ IF NoDocuments(docs)
       THEN /\ \E bad \in SUBSET files :
                 RequestEnd(r, Cur, contexts, "400", "HTTPException", bad)
            /\ lastStart' = "none"
            /\ Note(r, {"no_docs"})
            /\ NoFault
       ELSE LET s == StartTransaction(Cur, r) IN
            /\ lastStart' = IF s.raised THEN "ValueError" ELSE "ok"
            /\ IF s.raised
               THEN /\ \E bad \in SUBSET files :
                         RequestEnd(r, s.S, contexts, "500", "ValueError", bad)
                    /\ NoFault
                    /\ Note(r, Seen(docs))
               ELSE IF HasCsvContent(r)
               THEN /\ Install(s.S)
                    /\ rpc' = [rpc EXCEPT ![r] = "asking"]
                    /\ Note(r, {"txn", "llm"} \cup Seen(docs))
                    /\ NoFault
                    /\ UNCHANGED <<status, outcome, contexts, metrics>>
               ELSE /\ \E bad \in SUBSET files :
                         RequestEnd(r, TransactionExit(s.S, r, TRUE, bad).S, contexts,
                                    "400", "HTTPException", bad)
                    /\ Note(r, {"txn"} \cup Seen(docs))
                    /\ cause' = [cause EXCEPT ![r] = Error("HTTPException", "No CSV data found")]
                    /\ UNCHANGED detail
    /\ UNCHANGED <<built, kind>>
    /\ UNCHANGED <<limiterVars, deployVars>>

\* get_uploaded_documents raised: query_documents answers 500
QueryFails(r) ==
    /\ rpc[r] = "qlisting"
    /\ \E bad \in SUBSET files : RequestEnd(r, Cur, contexts, "500", "Exception", bad)
    /\ lastStart' = "none"
    /\ UNCHANGED <<built, kind, events, cause, detail>>
    /\ UNCHANGED <<limiterVars, deployVars>>

Kinds == {"upload", "query"}
Answers == {"true", "false", "queued"}

NextApi ==
    \/ \E r \in Reqs, k \in Kinds, adm \in Answers, conn \in BOOLEAN :
          RequestArrives(r, k, adm, conn)
    \/ \E r \in Reqs, ok \in BOOLEAN, conn \in BOOLEAN : RequestResumes(r, ok, conn)
    \/ \E r \in Reqs, p \in Paths : UploadSaved(r, p)
    \/ \E r \in Reqs : UploadFails(r)
    \/ \E r \in Reqs, found \in BOOLEAN : UploadListed(r, found)
    \/ \E r \in Reqs, csv \in BOOLEAN, parsed \in BOOLEAN : UploadProcessed(r, csv, parsed)
    \/ \E r \in Reqs, docs \in BOOLEAN : QueryListed(r, docs)
    \/ \E r \in Reqs : QueryFails(r)

NextTxn ==
    \/ \E r \in Reqs : BlockStart(r)
    \/ \E r \in Reqs, p \in Paths : BlockRegister(r, p)
    \/ \E r \in Reqs : BlockReturn(r)
    \/ \E r \in Reqs : BlockRaise(r)
    \/ \E r \in Reqs : Age(r)
    \/ cleanup_old_transactions
    \/ \E r \in Reqs, k \in Kinds, adm \in Answers, conn \in BOOLEAN :
          RequestArrives(r, k, adm, conn)
    \/ \E r \in Reqs, ok \in BOOLEAN, conn \in BOOLEAN : RequestResumes(r, ok, conn)
    \/ \E r \in Reqs, p \in Paths : UploadSaved(r, p)
    \/ \E r \in Reqs : UploadFails(r)
    \/ \E r \in Reqs, found \in BOOLEAN : UploadListed(r, found)
    \/ \E r \in Reqs, csv \in BOOLEAN, parsed \in BOOLEAN : UploadProcessed(r, csv, parsed)
    \/ \E r \in Reqs, docs \in BOOLEAN : QueryListed(r, docs)
    \/ \E r \in Reqs : QueryFails(r)

\* ------------------------------------------------------------------------
\* The limiter as main.py constructs it, called from the event loop only
\* ------------------------------------------------------------------------
DeployedCapW == DeployedCapacity * Scale
\* ticks in one second
Second == DeployedLeakRate * Scale

Min(a, b) == IF a <= b THEN a ELSE b

AllowRequestLoose(w, e, cap) ==
    LET lw == LeakedWater(w, e) IN
    IF lw <= cap THEN [water |-> lw + Scale, ok |-> TRUE]
    ELSE [water |-> lw, ok |-> FALSE]
\* allow_request on water w, e ticks after last_check, with capacity cap
AllowRequest(w, e, cap) ==
    LET lw == LeakedWater(w, e) IN
    IF lw < cap THEN [water |-> lw + Scale, ok |-> TRUE]
    ELSE [water |-> lw, ok |-> FALSE]

\* the instant that just ended filled the empty bucket and had a call rejected
FilledFromEmpty(b) == b.base = 0 /\ b.adm = DeployedCapacity /\ b.rej

InitDeployed ==
    /\ phase = "start"
    /\ pace = [n |-> 0, ok |-> TRUE]

\* time passes without calls
Sleep ==
    /\ elapsed < MaxSleep * Second
    /\ elapsed' = elapsed + 1
    /\ burst' = NoBurst
    /\ phase' = IF burst.base = -1 THEN phase
                ELSE IF FilledFromEmpty(burst) THEN "filled" ELSE "start"
    /\ UNCHANGED <<water, lock, queue, fstate, wpc, nfut, tpc, admitted, last, pace>>
    /\ UNCHANGED drain
    /\ UNCHANGED <<txnVars, apiVars>>

\* one call of allow_request. A call continues the paced run when it comes
\* at least 1/leak_rate after the previous call; otherwise it begins a new
\* run, provided the water level it finds is below capacity
ImmediateCall ==
    LET lw == LeakedWater(water, elapsed)
        a == AllowRequest(water, elapsed, DeployedCapW)
        b == BurstLeak(burst, lw)
    IN
    /\ water' = a.water
    /\ elapsed' = 0
    /\ burst' = IF a.ok THEN BurstAdmit(b) ELSE BurstReject(b)
    /\ phase' = IF burst.base # -1 THEN phase
                ELSE IF phase = "filled" /\ elapsed = Second THEN "after1s"
                ELSE "start"
    /\ pace' = IF pace.n > 0 /\ elapsed >= Scale
               THEN [n |-> Min(pace.n + 1, MaxPace), ok |-> pace.ok /\ a.ok]
               ELSE IF lw < DeployedCapW THEN [n |-> 1, ok |-> a.ok]
               ELSE [n |-> 0, ok |-> TRUE]
    /\ UNCHANGED <<lock, queue, fstate, wpc, nfut, tpc, admitted, last>>
    /\ UNCHANGED drain
    /\ UNCHANGED <<txnVars, apiVars>>

NextDeployed ==
    \/ Sleep
    \/ ImmediateCall

\* ------------------------------------------------------------------------
\* Request contexts of the orchestrator
\* ------------------------------------------------------------------------
InitApi ==
    /\ contexts = {}
    /\ kind = [r \in Reqs |-> "none"]
    /\ metrics = [r \in Reqs |-> 0]
    /\ events = [r \in Reqs |-> {}]
    /\ cause = [r \in Reqs |-> NoError]
    /\ detail = [r \in Reqs |-> NoDetail]

Init == InitLimiter /\ InitTxn /\ InitDeployed /\ InitApi

\* the admission controller alone
SpecLimiter == Init /\ [][NextLimiter]_vars

NextBlock ==
    \/ \E r \in Reqs : BlockStart(r)
    \/ \E r \in Reqs, p \in Paths : BlockRegister(r, p)
    \/ \E r \in Reqs : BlockReturn(r)
    \/ \E r \in Reqs : BlockRaise(r)

\* scoped blocks on the transaction manager, within max_age of their start
SpecBlock == Init /\ [][NextBlock]_vars

\* the transactions and the workflows that use them
SpecTxn == Init /\ [][NextTxn]_vars

\* the two endpoints that pass the limiter and open transactions
SpecApi == Init /\ [][NextApi]_vars

\* the limiter as main.py uses it: the endpoints call allow_request and
\* allow_request_with_queue, and nothing creates a task for process_queue
NextService ==
    \/ Tick
    \/ \E t \in Threads : ThreadEnter(t)
    \/ \E t \in Threads : ThreadInc(t)
    \/ allow_request_with_queue
    \/ \E f \in Futures : TimeoutFire(f)
    \/ \E f \in Futures : WakeTimeout(f)
    \/ \E f \in Futures : WakeCancelled(f)

SpecService == Init /\ [][NextService]_vars

\* the limiter of main.py under immediate calls and pauses
SpecDeployed == Init /\ [][NextDeployed]_vars
\* ------------------------------------------------------------------------
\* Properties of the limiter
\* ------------------------------------------------------------------------

\* C4: water_level is never negative, and immediately after any admit
\* (the only steps that raise water) it does not exceed capacity.
C4_WaterWithinCapacity ==
    /\ [](water >= 0)
    /\ [][water' > water => water' <= CapW]_vars

\* C5: the wait queue never holds more than max_queue_size waiters, and a
\* call of allow_request_with_queue that fails immediate admission while the
\* queue is full returns false at once, creates no waiter and leaves the
\* queue as it was.
C5_QueueBounded ==
    /\ [](Len(queue) <= max_queue_size)
    /\ [][(/\ last'.flip # last.flip
           /\ Max(0, water - elapsed) >= CapW
           /\ Len(queue) >= max_queue_size)
          => (/\ last'.res = "false"
              /\ queue' = queue
              /\ nfut' = nfut
              /\ wpc' = wpc
              /\ fstate' = fstate)]_vars

C5_Witness ==
    /\ last.res = "false"
    /\ Len(queue) = max_queue_size
    /\ water >= CapW

C8_Fifo ==
    /\ \A i, j \in DOMAIN admitted : i < j => admitted[i] < admitted[j]
    /\ \A i, j \in DOMAIN queue : i < j => queue[i] < queue[j]
    /\ \A f \in Futures :
         fstate[f] = "pending" => Cardinality({i \in DOMAIN queue : queue[i] = f}) = 1

C8_Witness ==
    /\ Len(admitted) >= 2
    /\ \E f \in Futures : wpc[f] = "ret_false" /\ f < admitted[Len(admitted)]

\* C9: allow_request is one step under the lock: within one instant the
\* water equals its value after the leak plus one per admit, and from
\* capacity-1 concurrent callers get exactly one admit, every other call
\* being rejected.
C9_AtomicAdmit ==
    /\ burst.base # -1 => water = burst.base + burst.adm * Scale
    /\ burst.base = CapW - Scale =>
         (burst.adm <= 1 /\ (burst.rej => burst.adm = 1))

C9_Witness ==
    /\ burst.base = CapW - Scale
    /\ burst.adm = 1
    /\ burst.rej
    /\ water = CapW
    /\ burst.who = Threads

\* C10: from an empty bucket and with no time elapsing, no call is rejected
\* before capacity calls were admitted, and no more than capacity are.
C10_Burst ==
    burst.base = 0 =>
        (burst.adm <= capacity /\ (burst.rej => burst.adm = capacity))

C10_Witness ==
    burst.base = 0 /\ burst.adm = capacity /\ burst.rej

\* C11: in every run of allow_request calls that starts at a water level
\* below capacity and in which each call comes at least 1/leak_rate after
\* the one before, every call is admitted.
C11_PacedCallsAdmitted == pace.ok

\* a paced run of MaxPace calls, each finding the bucket half a request
\* below capacity
C11_Witness ==
    /\ pace.n = MaxPace
    /\ pace.ok
    /\ water = DeployedCapW + Scale - 1
    /\ burst.base = DeployedCapW - 1

\* C12: with capacity=30, leak_rate=5/s and an empty bucket, the calls of
\* one instant are admitted until 30 were, and a call is rejected only then;
\* when the next calls come exactly one second later, the first of them
\* finds the water at 30 - 5, and none is rejected before 5 were admitted.
C12_DeployedScenario ==
    /\ burst.base = 0 =>
         (burst.adm <= DeployedCapacity /\ (burst.rej => burst.adm = DeployedCapacity))
    /\ (phase = "after1s" /\ burst.base # -1) =>
         /\ burst.base = (DeployedCapacity - DeployedLeakRate) * Scale
         /\ water = burst.base + burst.adm * Scale
         /\ burst.rej => burst.adm >= DeployedLeakRate

C12_Witness ==
    /\ phase = "after1s"
    /\ burst.adm = DeployedLeakRate
    /\ burst.rej
\* ------------------------------------------------------------------------
\* Properties of the transactions and of the upload workflow
\* ------------------------------------------------------------------------

ReverseOrder(n) == [i \in 1..n |-> n + 1 - i]

\* C1: for every transaction whose scoped block has exited, by a return or
\* by an error, the cleanups invoked over its whole life are those of its
\* registered resources, once each, in reverse order of registration.
C1_CleanupExactlyOnce ==
    \A r \in Reqs :
        rpc[r] = "done" => calls[r] = ReverseOrder(Len(txn[r].resources))

\* C2: an upload whose workflow produced its success response is answered
\* with the success response, also when a resource cleanup fails at the
\* exit of the transaction.
C2_SuccessSurvivesCleanupError ==
    \A r \in Reqs : built[r] => (status[r] = "200" /\ outcome[r] = "returned")

\* C3: when an upload completes successfully, the uploaded file, registered
\* with is_temp=False, still exists.
C3_UploadedFileKept ==
    [][\A r \in Reqs :
        (status[r] = "none" /\ status'[r] = "200") =>
            \A i \in DOMAIN txn'[r].resources :
                ~txn'[r].resources[i].is_temp => txn'[r].resources[i].path \in files']_vars

\* indices of the resources of r whose cleanup raises when the deletions
\* of the paths in bad fail
Failing(r, bad) ==
    {i \in DOMAIN txn[r].resources :
        txn[r].resources[i].path \in files /\ txn[r].resources[i].path \in bad}

\* C13: whichever resource cleanups raise, Transaction.cleanup invokes the
\* cleanup of every registered resource, in reverse order, and the error it
\* then raises lists each failing resource exactly once; a block that ended
\* by that error had every resource's cleanup invoked.
C13_AggregateCleanupError ==
    /\ [](\A r \in Range(active) : \A bad \in SUBSET files :
            LET c == TransactionCleanup(Cur, r, bad)
                n == Len(txn[r].resources)
            IN
             /\ Len(calls[r]) + n <= MaxCalls =>
                   c.S.calls[r] = calls[r] \o ReverseOrder(n)
             /\ Range(c.errors) = Failing(r, bad)
             /\ \A i, j \in DOMAIN c.errors : i < j => c.errors[i] > c.errors[j])
    /\ [][\A r \in Reqs :
            (outcome[r] # "CleanupError" /\ outcome'[r] = "CleanupError"
             /\ Len(calls[r]) + Len(txn[r].resources) <= MaxCalls) =>
                calls'[r] = calls[r] \o ReverseOrder(Len(txn[r].resources))]_vars

\* the later of two resources failed and the earlier one was still cleaned
C13_Witness ==
    \E r \in Reqs :
        /\ outcome[r] = "CleanupError"
        /\ Len(txn[r].resources) = 2
        /\ calls[r] = <<2, 1>>
        /\ txn[r].resources[2].path \in files
        /\ txn[r].resources[1].path \notin files

\* C14: completed and failed are never both true, and once the scoped
\* block has exited exactly one of them is true.
C14_ExactlyOneFlag ==
    \A r \in Reqs :
        /\ ~(txn[r].completed /\ txn[r].failed)
        /\ rpc[r] = "done" => (txn[r].completed # txn[r].failed)

\* C15: once a block has returned with every cleanup successful, no later
\* step invokes a cleanup of its resources again.
C15_NoSecondClean ==
    [][\A r \in Reqs :
        (rpc[r] = "done" /\ outcome[r] = "returned") => calls'[r] = calls[r]]_vars

\* C16: start_transaction on an id that is not active appends a new, empty
\* transaction under that id and changes nothing else; on an active id it
\* raises and changes nothing; a step reports success only for an id that
\* was not active.
C16_Collision ==
    /\ [](\A r \in Reqs :
            LET s == StartTransaction(Cur, r) IN
            IF r \in Range(active)
            THEN s.raised /\ s.S = Cur
            ELSE /\ ~s.raised
                 /\ s.S.active = Append(active, r)
                 /\ s.S.txn = [txn EXCEPT ![r] = NewTransaction]
                 /\ s.S.files = files)
    /\ [][/\ lastStart' = "ValueError" => (active' = active /\ txn' = txn /\ files' = files)
          /\ lastStart' = "ok" =>
                \E r \in Reqs : /\ r \notin Range(active)
                                /\ active' = Append(active, r)
                                /\ txn' = [txn EXCEPT ![r] = NewTransaction]]_vars

\* a collision on the id of an open transaction that holds a resource
C16_Witness ==
    /\ lastStart = "ValueError"
    /\ \E r \in Reqs : rpc[r] = "block" /\ Len(txn[r].resources) > 0

\* C17: a sweep removes every transaction that was active and older than
\* max_age, and leaves every younger one in the active set as it was.
C17_SweepRemovesOld ==
    [][cleanup_old_transactions =>
        \A r \in Range(active) :
            IF txn[r].old THEN r \notin Range(active')
            ELSE r \in Range(active') /\ txn'[r] = txn[r] /\ calls'[r] = calls[r]]_vars

\* ------------------------------------------------------------------------
\* Properties of the endpoints
\* ------------------------------------------------------------------------

\* what a request starts or calls once it is past the connection check
Work == {"txn", "upload", "list", "process", "parse", "llm"}

\* C18: a request that has ended, however it ended, has no context in the
\* registry and exactly one final metrics record; a request whose context
\* is still in the registry has no final metrics record yet.
C18_ContextDestroyed ==
    \A r \in Reqs :
        /\ (kind[r] # "none" /\ rpc[r] = "done") => (r \notin contexts /\ metrics[r] = 1)
        /\ r \in contexts => metrics[r] = 0
        /\ metrics[r] <= 1

\* a request answered 200 and one answered 400 have both ended
C18_Witness ==
    \E r, q \in Reqs :
        /\ status[r] = "200" /\ status[q] = "400"
        /\ contexts = {}
        /\ metrics[r] = 1 /\ metrics[q] = 1

\* C19: a request context exists only for a request that the limiter has
\* admitted.
C19_ContextAfterAdmission ==
    \A r \in Reqs : r \in contexts => "admit" \in events[r]

\* C20: a request the limiter rejected is answered 429 and one whose
\* connection check failed is answered 503, and a request answered 429 or
\* 503 started no transaction and called no collaborator.
C20_ShortCircuit ==
    \A r \in Reqs :
        /\ "reject" \in events[r] => status[r] = "429"
        /\ "conn_fail" \in events[r] => status[r] = "503"
        /\ status[r] \in {"429", "503"} =>
             /\ events[r] \cap Work = {}
             /\ r \notin Range(active)
             /\ calls[r] = <<>>
             /\ txn[r] = NewTransaction

\* one request rejected after waiting in the queue, one stopped by the
\* connection check
C20_Witness ==
    \E r, q \in Reqs :
        /\ status[r] = "429" /\ "queued" \in events[r]
        /\ status[q] = "503" /\ "conn_fail" \in events[q]

\* ------------------------------------------------------------------------
\* Properties of the workflows' error paths
\* ------------------------------------------------------------------------

\* C21: an upload whose saved file has no listed document with its name and
\* a non-empty id fails, with the error about the missing id and never with
\* a success response; process_document is not called, and the transaction
\* is rolled back and runs the cleanup of the saved file's resource
C21_MissingIdFails ==
    \A r \in Reqs :
        "no_id" \in events[r] =>
            /\ rpc[r] = "done"
            /\ status[r] = "500"
            /\ ~built[r]
            /\ cause[r] = Error("ValueError", "Document ID not found after upload")
            /\ detail[r].error = "Document ID not found after upload"
            /\ "process" \notin events[r]
            /\ txn[r].failed /\ ~txn[r].completed
            /\ Len(txn[r].resources) = 1
            /\ calls[r] # <<>> /\ calls[r][1] = 1

\* the id was missing for an upload, and the saved file is gone
C21_Witness ==
    \E r \in Reqs :
        /\ "no_id" \in events[r]
        /\ status[r] = "500"
        /\ txn[r].resources[1].path \notin files

\* C22: an upload of a CSV file for which csv_parser.parse_file raises still
\* succeeds: it answers 200 with a response that was built, its statistics
\* being the sentinel "No analysis available"
C22_ParseFailureStillSucceeds ==
    \A r \in Reqs :
        "parse_failed" \in events[r] =>
            /\ built[r]
            /\ status[r] = "200"
            /\ cause[r] = NoError

\* C23: a query that finds no uploaded document is answered 400: no
\* transaction is started for it, so no resource is registered, and the LLM
\* is not called
C23_QueryWithoutDocuments ==
    \A r \in Reqs :
        "no_docs" \in events[r] =>
            /\ rpc[r] = "done"
            /\ kind[r] = "query"
            /\ status[r] = "400"
            /\ "txn" \notin events[r]
            /\ "llm" \notin events[r]
            /\ r \notin Range(active)
            /\ txn[r].resources = <<>>

\* a query found no documents and was answered
C23_Witness ==
    \E r \in Reqs : "no_docs" \in events[r] /\ status[r] = "400" /\ "admit" \in events[r]

\* C24: a query that is admitted with the database connected is answered
\* 400 only when no document exists; with a document it goes on to the LLM
C24_Query400OnlyWithoutDocuments ==
    \A r \in Reqs :
        (kind[r] = "query" /\ status[r] = "400") =>
            /\ "no_docs" \in events[r]
            /\ "txn" \notin events[r]

\* C25: whatever exception the upload workflow raises between opening its
\* transaction and building its response, the outer handler makes a
\* structured error of it that carries the message and the kind of that
\* exception, the request id and a timestamp, and the transaction is rolled
\* back
C25_OuterHandlerKeepsOriginal ==
    \A r \in Reqs :
        (kind[r] = "upload" /\ cause[r] # NoError) =>
            /\ detail[r].error = cause[r].msg
            /\ detail[r].error_type = cause[r].kind
            /\ detail[r].request_id = r
            /\ detail[r].timestamp # "none"
            /\ txn[r].failed
            /\ status[r] = "500"

\* ------------------------------------------------------------------------
\* Properties of the limiter in the service and of its drain loop
\* ------------------------------------------------------------------------

\* C26: while the service takes requests the drain loop runs: whenever a
\* call waits in the queue there is a task running process_queue that can
\* admit it, and no waiter is left with the timeout as its only outcome
C26_DrainLoopRunning ==
    /\ queue # <<>> => drain
    /\ \A f \in Futures : wpc[f] = "waiting" => drain

\* ------------------------------------------------------------------------
\* Properties of the rollback
\* ------------------------------------------------------------------------

\* C27: when a block fails and a cleanup fails during the rollback, no
\* cleanup error leaves rollback or __exit__: the exception that leaves the
\* block, and so the error reported, is the one the block raised
C27_RollbackKeepsOriginal ==
    /\ [](\A r \in Reqs : rpc[r] = "block" =>
            \A bad \in SUBSET files :
                /\ ~Rollback(Cur, r, bad).raised
                /\ ~TransactionExit(Cur, r, TRUE, bad).raised
                /\ TransactionExit(Cur, r, TRUE, bad).S.txn[r].failed)
    /\ [][\A r \in Reqs :
            (rpc[r] = "block" /\ rpc'[r] = "done" /\ txn'[r].failed) =>
                outcome'[r] = "raised"]_vars

\* a block raised, a deletion failed during its rollback, and the block's
\* own exception went on
C27_Witness ==
    \E r \in Reqs :
        /\ outcome[r] = "raised"
        /\ txn[r].failed
        /\ OwnFiles(r) # {}

\* C28: admitted weight is conserved: every step that adds one unit to
\* water is an admission that returns true, at once or through the future
\* of a waiter, and the drain loop adds nothing for a waiter that has timed
\* out or been cancelled
C28_WeightConserved ==
    [][/\ (allow_request_with_queue /\ water' = LeakedWater(water, elapsed) + Scale)
            => (last' # last /\ last'.res = "true")
       /\ (process_queue /\ water' = LeakedWater(water, elapsed) + Scale)
            => /\ fstate[queue[1]] = "pending"
               /\ fstate'[queue[1]] = "result"
               /\ admitted' = Append(admitted, queue[1])]_vars

\* C30: while an earlier call waits in the queue, a later call is not
\* admitted at once ahead of it
C30_NoOvertaking ==
    [][(\E i \in DOMAIN queue : fstate[queue[i]] = "pending" /\ wpc[queue[i]] = "waiting")
          => /\ ~(allow_request_with_queue /\ last'.res = "true")
             /\ \A t \in Threads : ~(ThreadEnter(t) /\ tpc'[t] = "inc")]_vars

\* C29: active_transactions holds only transactions whose block has not
\* exited: once the block of a request has exited, normally or by an error,
\* its id is not in the active set
C29_ActiveOnlyOpenBlocks ==
    \A r \in Reqs :
        r \in Range(active) => (rpc[r] # "done" /\ ~txn[r].completed /\ ~txn[r].failed)
====
